---- MODULE Spec2Model ----
(***************************************************************************)
(* Adaptive batch ingestion controller of jsonbench: batch_load.py and     *)
(* batch_load_streaming_fixed.py.                                          *)
(*                                                                         *)
(* The scripts are sequential.  One action of the model is the code that   *)
(* runs between two blocking points of a script: reading one input line    *)
(* (ReadLine, ReadBlank, ReadError), reaching the end of the input         *)
(* (EndOfStream) and one `clickhouse client` subprocess run (Submit).  The *)
(* sink is external: the outcome of a run is chosen nondeterministically.  *)
(*                                                                         *)
(* Interrupt, an external SIGINT, is part of SpecInterrupt only.  SpecLoad  *)
(* runs load_batch alone, on any small batch.                              *)
(* SpecControl runs the scripts with two more scalings of the batch sizes. *)
(*                                                                         *)
(* yielded and calls are history variables: the scripts do not keep them.  *)
(*                                                                         *)
(* The batch sizes of the scripts (500000 / 100000 / 50000 records and     *)
(* 10000 / 2000 / 1000 records) are scaled down in Configs; the order      *)
(* relations between them that the code depends on are kept.               *)
(***************************************************************************)
EXTENDS Integers, Sequences, FiniteSets, TLC

VARIABLES
    cfg,                 \* the script and its batch-size constants
    pc,                  \* "read" | "submit" | "done" | "crashed" |
                         \* "interrupted"; load_batch alone: "call" |
                         \* "submit" | "returned"
    eof,                 \* the input loop has ended (code after line 112)
    batch_lines,         \* batch_lines: the in-progress / in-flight batch
    processed,           \* processed
    total_loaded,        \* total_loaded
    failed_records,      \* failed_records
    current_batch_size,  \* current_batch_size
    message,             \* outcome of the load_batch call on batch_lines
    parts,               \* split parts not yet resolved (head: in flight)
    limit_idx,           \* position of the running load_batch in memory_limits
    attempts,            \* sink submissions of the load_batch call on batch_lines
    part_attempts,       \* sink submissions of the last load_batch call on a part
    invalid_read,        \* number of malformed lines read so far
    yielded,             \* history: ids of the lines of the top-level batches
                         \* passed to load_batch so far, in call order
    calls,               \* history: load_batch calls made for the current
                         \* top-level batch, those on its split parts
                         \* included
    temp_file            \* temp_file of the running / last load_batch call

vars == <<cfg, pc, eof, batch_lines, processed, total_loaded, failed_records,
          current_batch_size, message, parts, limit_idx, attempts,
          part_attempts, invalid_read, yielded, calls, temp_file>>

\* Bounds of the model.
MaxRecords == 18
MaxInvalid == 2
MaxLoadLen == 3

Min(a, b) == IF a < b THEN a ELSE b
Max(a, b) == IF a > b THEN a ELSE b

\* The two scripts, batch sizes scaled down.
\*   batch_load.py:                 500000, +100000, floor 100000, split > 50000
\*   batch_load_streaming_fixed.py:  10000,   +2000, floor   1000, split >  1000
\* Kept: floor <= initial \div 2, floor <= increase < initial, the split
\* threshold < floor (batch_load) or = floor (streaming), and the threshold
\* >= num_parts, so that split_batch never computes part_size = 0.
BatchLoadCfg ==
    [script |-> "batch_load", initial_batch_size |-> 12, increase |-> 5,
     floor |-> 5, min_split |-> 4]
StreamingCfg ==
    [script |-> "streaming", initial_batch_size |-> 9, increase |-> 6,
     floor |-> 4, min_split |-> 4]
Configs == {BatchLoadCfg, StreamingCfg}

\* split_batch(batch_lines, 4) at every call site.
NumParts == 4

\* Outcome of one `clickhouse client` run: returncode 0, or a failure whose
\* stderr holds MEMORY_LIMIT_EXCEEDED, or any other failure.
Outcomes == {"Success", "MEMORY_LIMIT_EXCEEDED", "OtherError"}

\* A record is one non-blank input line: its ordinal and whether json.loads
\* accepts it.
Record(n, v) == [id |-> n, valid |-> v]

\* valid_lines of load_batch: the lines json.loads accepts.
valid_lines(lines) == Cardinality({i \in 1..Len(lines) : lines[i].valid})

\* Mutant of memory_limits: a ladder of five limits.
memory_limits_five(batch_size_mb) ==
    <<batch_size_mb * 1000000, 300000000, 150000000, 100000000, 50000000>>

\* memory_limits of load_batch, in bytes.
memory_limits(batch_size_mb) ==
    <<batch_size_mb * 1000000, 300000000, 150000000, 100000000>>

\* Mutant of batch_size_mb: the 200 of line 96 is not passed.
batch_size_mb_default == IF parts = <<>> THEN 500 ELSE 500

\* batch_size_mb of the running load_batch call: the default for a batch,
\* 200 for a split part.
batch_size_mb == IF parts = <<>> THEN 500 ELSE 200

\* Mutant of split_batch: exactly num_parts slices, the remainder dropped.
split_batch_truncating(lines, num_parts) ==
    LET part_size == Len(lines) \div num_parts
    IN [i \in 1..num_parts |->
          SubSeq(lines, (i - 1) * part_size + 1, i * part_size)]

\* split_batch: slices of part_size = len // num_parts lines, taken at
\* range(0, len, part_size).
split_batch(lines, num_parts) ==
    LET part_size == Len(lines) \div num_parts
        n == (Len(lines) + part_size - 1) \div part_size
    IN [i \in 1..n |->
          SubSeq(lines, (i - 1) * part_size + 1, Min(i * part_size, Len(lines)))]

\* Mutants of Increase: the cap forgotten; the step doubling the size; a step
\* of one record.
IncreaseNoCap(size) == size + cfg.increase
IncreaseByOne(size) ==
    IF size < cfg.initial_batch_size THEN size + 1 ELSE size
IncreaseDoubling(size) ==
    IF size < cfg.initial_batch_size
    THEN Min(size * 2, cfg.initial_batch_size)
    ELSE size

\* Controller: additive increase after a successful batch of the main loop.
Increase(size) ==
    IF size < cfg.initial_batch_size
    THEN Min(size + cfg.increase, cfg.initial_batch_size)
    ELSE size

\* Mutants of Decrease: the floor forgotten; one halving per split part.
DecreaseNoFloor(size) == size \div 2
RECURSIVE Halve(_, _)
Halve(size, times) ==
    IF times = 0 THEN size ELSE Halve(Max(size \div 2, cfg.floor), times - 1)
DecreasePerPart(size) ==
    IF Len(batch_lines) > cfg.min_split
    THEN Halve(size, Len(split_batch(batch_lines, NumParts)))
    ELSE Halve(size, 1)

\* Controller: multiplicative decrease after a failed batch of the main loop.
Decrease(size) == Max(size \div 2, cfg.floor)

\* Mutant of Retry: every failure goes on to the next memory limit.
RetryAnyFailure(o, idx) ==
    o # "Success" /\ idx < Len(memory_limits(batch_size_mb))

\* Lines 36-47: after a failed run load_batch goes on to the next memory limit
\* only on MEMORY_LIMIT_EXCEEDED (`continue`), and only while one is left.
Retry(o, idx) ==
    o = "MEMORY_LIMIT_EXCEEDED" /\ idx < Len(memory_limits(batch_size_mb))

\* Mutant of ShouldSplit: a batch of exactly the threshold is split too.
ShouldSplitAtThreshold(lines) == Len(lines) >= cfg.min_split

\* Line 90 / 122: a failed batch is split only when it is large enough.
ShouldSplit(lines) == Len(lines) > cfg.min_split

\* Mutant of part_len: a part is counted by its valid lines.
part_valid_len(part) == valid_lines(part)

\* Lines 98 / 101: len(part), the amount a resolved part adds to total_loaded
\* or failed_records.
part_len(part) == Len(part)

\* Mutant of NoValidLines: the check of lines 24-26 is missing.
NoValidLinesUnchecked(lines) == FALSE

\* Lines 24-26: `if valid_lines == 0`; an empty batch has no valid line (and
\* the streaming script returns "Empty batch" for it before that, lines
\* 13-14).
NoValidLines(lines) == valid_lines(lines) = 0

\* Mutant of BatchFull: the batch is yielded one line late.
BatchFullLate(batch) == Len(batch) > current_batch_size

\* Line 77: `if len(batch_lines) >= current_batch_size`.
BatchFull(batch) == Len(batch) >= current_batch_size

\* Mutant of AppendLine: the line is put in front of the batch.
PrependLine(batch, rec) == <<rec>> \o batch

\* Line 74: batch_lines.append(line).
AppendLine(batch, rec) == Append(batch, rec)

\* The ids of the lines of a batch, in order.
Ids(lines) == [i \in 1..Len(lines) |-> lines[i].id]

\* Mutant of NextSize: the final batch updates the batch size too.
NextSizeAlways(size, final) == size

\* Lines 85-86 / 107 against 116-132: the branches of the main loop assign
\* current_batch_size, those of the final batch do not.
NextSize(size, final) == IF final THEN current_batch_size ELSE size

\* Line 11: tempfile.NamedTemporaryFile(..., delete=False): the file exists
\* after the `with` block.
NamedTemporaryFile == [created |-> TRUE, exists |-> TRUE, unlinks |-> 0]

\* No load_batch call has created a file (and the streaming script's
\* load_batch returns "Empty batch" at lines 13-14, before line 17).
NoFile == [created |-> FALSE, exists |-> FALSE, unlinks |-> 0]

\* Mutant of unlink: the file is left behind.
unlink_forgotten(tf) == tf

\* Lines 25, 38, 50: os.unlink(temp_file).
unlink(tf) ==
    [created |-> tf.created, exists |-> FALSE, unlinks |-> tf.unlinks + 1]

\* Lines 93-102 / 124-130: the loop over the split parts, run up to the next
\* part that needs a sink submission.  An empty part is skipped (`if part:`);
\* a part with no valid line returns success from load_batch at once (lines
\* 24-26) and is counted as loaded.
RECURSIVE RunParts(_, _)
RunParts(ps, loaded) ==
    IF ps = <<>> THEN [parts |-> <<>>, loaded |-> loaded]
    ELSE IF Head(ps) = <<>> THEN RunParts(Tail(ps), loaded)
    ELSE IF NoValidLines(Head(ps))
         THEN RunParts(Tail(ps), loaded + part_len(Head(ps)))
    ELSE [parts |-> ps, loaded |-> loaded]

\* Lines 134-138: the final summary.  batch_load.py divides by processed
\* unguarded; the streaming script prints the rate only if processed > 0.
Summary ==
    IF cfg.script = "batch_load" /\ processed = 0 THEN "crashed" ELSE "done"

\* Mutant of AfterResolve: the resolved batch is kept.
AfterResolveKeep(batch) == batch

\* Line 110: batch_lines = [] once the batch of the main loop is resolved.
AfterResolve(batch) == <<>>

\* Mutant of Resume: the split parts are left to be loaded in the background
\* and the script goes on reading.
ResumeAsync(batch, loaded, failed, ps, size, final, log) ==
    /\ total_loaded' = loaded
    /\ failed_records' = failed
    /\ parts' = ps
    /\ limit_idx' = 1
    /\ part_attempts' = log
    /\ temp_file' = unlink(NamedTemporaryFile)
    /\ calls' = IF pc = "submit" THEN calls ELSE 1
    /\ current_batch_size' = NextSize(size, final)
    /\ pc' = IF final THEN Summary ELSE "read"
    /\ batch_lines' = IF final THEN batch ELSE AfterResolve(batch)

\* The script from the point where the counters are `loaded` and `failed` and
\* the parts `ps` are still to be loaded, up to its next blocking point: the
\* submission of a part, or, the batch being resolved, the next read (main
\* loop: the batch size becomes `size`, line 110 empties the batch) or the
\* final summary.
Resume(batch, loaded, failed, ps, size, final, log) ==
    LET r == RunParts(ps, loaded)
        \* the file of the load_batch call that has just returned: of the
        \* call that was blocked in a submission, or of a call that found no
        \* valid line
        last == IF pc = "submit" /\ r.parts = ps
                THEN temp_file ELSE NamedTemporaryFile
        \* load_batch calls so far: the one that has just returned and the
        \* earlier ones, then one per non-empty part taken from ps
        before == IF pc = "submit" THEN calls ELSE 1
        taken == SubSeq(ps, 1, Len(ps) - Len(r.parts) +
                                  (IF r.parts # <<>> THEN 1 ELSE 0))
    IN
    /\ calls' = before + Cardinality({i \in 1..Len(taken) : taken[i] # <<>>})
    /\ total_loaded' = r.loaded
    /\ failed_records' = failed
    /\ parts' = r.parts
    /\ limit_idx' = 1
    /\ IF r.parts # <<>>
       THEN /\ pc' = "submit"
            /\ part_attempts' = <<>>
            /\ batch_lines' = batch
            /\ current_batch_size' = current_batch_size
            /\ temp_file' = NamedTemporaryFile
       ELSE /\ part_attempts' = log
            /\ temp_file' = unlink(last)
            /\ current_batch_size' = NextSize(size, final)
            /\ IF final
               THEN /\ pc' = Summary
                    /\ batch_lines' = batch
               ELSE /\ pc' = "read"
                    /\ batch_lines' = AfterResolve(batch)

\* Lines 81-108 / 116-132: load_batch(batch_lines) returned (ok, message).
Returned(batch, ok, final) ==
    IF ok
    THEN Resume(batch, total_loaded + Len(batch), failed_records, <<>>,
                Increase(current_batch_size), final, <<>>)
    ELSE IF ShouldSplit(batch)
    THEN Resume(batch, total_loaded, failed_records,
                split_batch(batch, NumParts),
                Decrease(current_batch_size), final, <<>>)
    ELSE Resume(batch, total_loaded, failed_records + Len(batch), <<>>,
                Decrease(current_batch_size), final, <<>>)

\* Lines 79 / 115: load_batch(batch_lines) is called.  With no valid line it
\* returns success without a submission (lines 24-26); otherwise it blocks in
\* its first subprocess.run.
Call(batch, final) ==
    /\ attempts' = <<>>
    /\ yielded' = yielded \o Ids(batch)
    /\ IF NoValidLines(batch)
       THEN /\ message' = "NoValid"
            /\ Returned(batch, TRUE, final)
       ELSE /\ message' = "pending"
            /\ pc' = "submit"
            /\ calls' = 1
            /\ limit_idx' = 1
            /\ batch_lines' = batch
            /\ part_attempts' = <<>>
            /\ temp_file' = NamedTemporaryFile
            /\ UNCHANGED <<total_loaded, failed_records, parts,
                           current_batch_size>>

InitWith(c) ==
    /\ cfg = c
    /\ pc = "read"
    /\ eof = FALSE
    /\ batch_lines = <<>>
    /\ processed = 0
    /\ total_loaded = 0
    /\ failed_records = 0
    /\ current_batch_size = cfg.initial_batch_size
    /\ message = "none"
    /\ parts = <<>>
    /\ limit_idx = 1
    /\ attempts = <<>>
    /\ part_attempts = <<>>
    /\ invalid_read = 0
    /\ yielded = <<>>
    /\ calls = 0
    /\ temp_file = NoFile

Init == \E c \in Configs : InitWith(c)

\* Lines 71-110: one non-blank line is read and appended; a full batch is
\* loaded.
ReadLine ==
    /\ pc = "read"
    /\ ~eof
    /\ processed < MaxRecords
    /\ \E v \in BOOLEAN :
         /\ (~v) => invalid_read < MaxInvalid
         /\ invalid_read' = IF v THEN invalid_read ELSE invalid_read + 1
         /\ processed' = processed + 1
         /\ LET batch == AppendLine(batch_lines, Record(processed + 1, v)) IN
            IF BatchFull(batch)
            THEN Call(batch, FALSE)
            ELSE /\ batch_lines' = batch
                 /\ UNCHANGED <<pc, total_loaded, failed_records,
                                current_batch_size, message, parts, limit_idx,
                                attempts, part_attempts, yielded, calls,
                                temp_file>>
    /\ UNCHANGED <<cfg, eof>>

\* Lines 72-73: a line that is blank after strip() is skipped.
ReadBlank ==
    /\ pc = "read"
    /\ ~eof
    /\ UNCHANGED vars

\* batch_load_streaming_fixed.py lines 93-95 and 139-141: reading a file
\* raises (a truncated or corrupt .gz); the handler prints the error and the
\* loop goes on with the next file.  The lines left in the file are never
\* read; no variable of the script changes, batch_lines keeps the records
\* read so far.
ReadError ==
    /\ pc = "read"
    /\ ~eof
    /\ cfg.script = "streaming"
    /\ UNCHANGED vars

\* Lines 112-138: the input is exhausted; the remaining batch, if any, is
\* loaded, then the summary is printed.
EndOfStream ==
    /\ pc = "read"
    /\ ~eof
    /\ eof' = TRUE
    /\ IF batch_lines # <<>>
       THEN Call(batch_lines, TRUE)
       ELSE /\ pc' = Summary
            /\ UNCHANGED <<batch_lines, total_loaded, failed_records,
                           current_batch_size, message, parts, limit_idx,
                           attempts, part_attempts, yielded, calls,
                           temp_file>>
    /\ UNCHANGED <<cfg, processed, invalid_read>>

\* Lines 31-51 and the caller's code after the return: one subprocess.run of
\* the running load_batch call ends with outcome o.
Submit(o) ==
    /\ pc = "submit"
    /\ LET entry == [limit |-> memory_limits(batch_size_mb)[limit_idx],
                     outcome |-> o]
           retry == Retry(o, limit_idx)
       IN
       IF parts = <<>>
       THEN \* load_batch(batch_lines, table_name)
            /\ attempts' = Append(attempts, entry)
            /\ IF retry
               THEN /\ limit_idx' = limit_idx + 1
                    /\ UNCHANGED <<pc, batch_lines, total_loaded,
                                   failed_records, current_batch_size, message,
                                   parts, part_attempts, temp_file, calls>>
               ELSE /\ message' = IF o = "Success" THEN "Loaded" ELSE o
                    /\ Returned(batch_lines, o = "Success", eof)
       ELSE \* load_batch(part, table_name, 200)
            /\ IF retry
               THEN /\ limit_idx' = limit_idx + 1
                    /\ part_attempts' = Append(part_attempts, entry)
                    /\ UNCHANGED <<pc, batch_lines, total_loaded,
                                   failed_records, current_batch_size, parts,
                                   temp_file, calls>>
               ELSE LET n == part_len(Head(parts)) IN
                    Resume(batch_lines,
                           IF o = "Success" THEN total_loaded + n
                                            ELSE total_loaded,
                           IF o = "Success" THEN failed_records
                                            ELSE failed_records + n,
                           Tail(parts), Decrease(current_batch_size), eof,
                           Append(part_attempts, entry))
            /\ UNCHANGED <<attempts, message>>
    /\ UNCHANGED <<cfg, eof, processed, invalid_read, yielded>>

Next ==
    \/ ReadLine
    \/ ReadBlank
    \/ ReadError
    \/ EndOfStream
    \/ \E o \in Outcomes : Submit(o)

Spec == Init /\ [][Next]_vars


\* Two more scalings of the batch sizes, for the controller.  With RecoveryCfg
\* the way back from the floor to the initial size takes more than one
\* successful batch (the scripts need 4 and 5 batches from their floors);
\* with FloorCfg one halving of the initial size reaches the floor of
\* batch_load.py, which is above the split threshold.
RecoveryCfg ==
    [script |-> "streaming", initial_batch_size |-> 8, increase |-> 2,
     floor |-> 4, min_split |-> 4]
FloorCfg ==
    [script |-> "batch_load", initial_batch_size |-> 10, increase |-> 5,
     floor |-> 5, min_split |-> 4]
ControlConfigs == {RecoveryCfg, FloorCfg}

InitControl == \E c \in ControlConfigs : InitWith(c)

SpecControl == InitControl /\ [][Next]_vars

\* An external SIGINT: Python raises KeyboardInterrupt in the main thread,
\* in the read loop or inside subprocess.run.  Neither script handles it
\* (the streaming script's `except Exception` does not catch it): the script
\* ends with a traceback, the batch in flight is left as it is and the code
\* from line 112 on (final batch, summary) does not run.
Interrupt ==
    /\ pc \in {"read", "submit"}
    /\ pc' = "interrupted"
    /\ UNCHANGED <<cfg, eof, batch_lines, processed, total_loaded,
                   failed_records, current_batch_size, message, parts,
                   limit_idx, attempts, part_attempts, invalid_read, yielded,
                   calls, temp_file>>

NextInterrupt == Next \/ Interrupt

SpecInterrupt == Init /\ [][NextInterrupt]_vars

\* load_batch alone.  Its arguments: any batch of at most MaxLoadLen lines,
\* batch_size_mb the default (parts empty) or 200 (the batch is a part).
LoadBatches ==
    UNION {[1..n -> {Record(0, TRUE), Record(0, FALSE)}] : n \in 0..MaxLoadLen}

InitLoad ==
    /\ cfg \in Configs
    /\ pc = "call"
    /\ eof = FALSE
    /\ batch_lines \in LoadBatches
    /\ parts \in {<<>>, <<batch_lines>>}
    /\ processed = 0
    /\ total_loaded = 0
    /\ failed_records = 0
    /\ current_batch_size = cfg.initial_batch_size
    /\ message = "none"
    /\ limit_idx = 1
    /\ attempts = <<>>
    /\ part_attempts = <<>>
    /\ invalid_read = 0
    /\ yielded = <<>>
    /\ calls = 0
    /\ temp_file = NoFile

\* Lines 9-29: load_batch is entered; the lines are validated.
LoadCall ==
    /\ pc = "call"
    /\ IF NoValidLines(batch_lines)
       THEN /\ pc' = "returned"
            /\ message' = "NoValid"
            /\ temp_file' = IF cfg.script = "streaming" /\ batch_lines = <<>>
                             THEN NoFile
                             ELSE unlink(NamedTemporaryFile)
       ELSE /\ pc' = "submit"
            /\ message' = "pending"
            /\ temp_file' = NamedTemporaryFile
    /\ UNCHANGED <<cfg, eof, batch_lines, processed, total_loaded,
                   failed_records, current_batch_size, parts, limit_idx,
                   attempts, part_attempts, invalid_read, yielded>>
    /\ calls' = 1

\* Lines 31-51: one subprocess.run of load_batch ends with outcome o.
LoadSubmit(o) ==
    /\ pc = "submit"
    /\ attempts' = Append(attempts,
                          [limit |-> memory_limits(batch_size_mb)[limit_idx],
                           outcome |-> o])
    /\ IF Retry(o, limit_idx)
       THEN /\ limit_idx' = limit_idx + 1
            /\ UNCHANGED <<pc, message, temp_file>>
       ELSE /\ pc' = "returned"
            /\ message' = (IF o = "Success" THEN "Loaded" ELSE o)
            /\ temp_file' = unlink(temp_file)
            /\ UNCHANGED limit_idx
    /\ UNCHANGED <<cfg, eof, batch_lines, processed, total_loaded,
                   failed_records, current_batch_size, parts, part_attempts,
                   invalid_read, yielded, calls>>

NextLoad ==
    \/ LoadCall
    \/ \E o \in Outcomes : LoadSubmit(o)

SpecLoad == InitLoad /\ [][NextLoad]_vars

(***************************************************************************)
(* Properties                                                              *)
(***************************************************************************)

\* load_batch returned failure: its message is the stderr of the last run.
Failures == {"MEMORY_LIMIT_EXCEEDED", "OtherError"}

\* The smallest memory limit of the ladder.
SmallestLimit == 100000000

\* This step ends the load_batch call on batch_lines (a sink run returned and
\* the call did not go on to the next memory limit).
TopReturns == pc = "submit" /\ parts = <<>> /\ message = "pending"
              /\ message' # "pending"

\* This step resolves the batch in flight: no submission for it is left.
Resolves == pc = "submit" /\ pc' # "submit"

\* C1: conservation of records.  At the end of the run processed equals
\* total_loaded + failed_records, and at every batch boundary of the run
\* (the script is about to read) processed equals total_loaded +
\* failed_records + the length of the in-progress batch.
C1_Conservation ==
    /\ pc \in {"done", "crashed"} =>
          processed = total_loaded + failed_records
    /\ pc = "read" =>
          processed = total_loaded + failed_records + Len(batch_lines)

\* A run has ended after a split in which parts were loaded and parts were
\* lost, with malformed lines in the input.
C1_Witness ==
    /\ pc = "done"
    /\ part_attempts # <<>>
    /\ total_loaded > 0
    /\ failed_records > 0
    /\ invalid_read > 0

\* C2: a malformed line never increases the loaded counter: when the batch
\* is loaded successfully, total_loaded grows by the number of valid records
\* of the batch.
C2_LoadedCountsValid ==
    [][(TopReturns /\ message' = "Loaded") =>
          total_loaded' = total_loaded + valid_lines(batch_lines)]_vars

\* The scenario of C3: batch_load.py with initial_batch_size = 5, an input of
\* 10 well-formed and 2 malformed lines in any positions, and a sink that
\* accepts every batch at the first memory limit.
ScenarioCfg ==
    [script |-> "batch_load", initial_batch_size |-> 5, increase |-> 1,
     floor |-> 4, min_split |-> 4]
Scenario == [valid |-> 10, invalid |-> 2]

InitC3 == InitWith(ScenarioCfg)

NextC3 ==
    \/ /\ ReadLine
       /\ invalid_read' <= Scenario.invalid
       /\ processed' - invalid_read' <= Scenario.valid
    \/ /\ processed = Scenario.valid + Scenario.invalid
       /\ EndOfStream
    \/ Submit("Success")

SpecC3 == InitC3 /\ [][NextC3]_vars

\* C3: in the scenario every batch the sink commits holds 5 valid records,
\* and the run ends with loaded = 10, 2 records dropped, seen = 12.
C3_Scenario ==
    /\ [](pc = "done" =>
            /\ processed = Scenario.valid + Scenario.invalid
            /\ total_loaded = Scenario.valid
            /\ processed - total_loaded - failed_records = Scenario.invalid)
    /\ [][(TopReturns /\ message' = "Loaded") =>
            valid_lines(batch_lines) = 5]_vars

\* C4: after a full batch of the main loop ends in LadderExhausted, split or
\* not, the new target size is max(targetSize / 2, floor): it does not
\* increase, it is not below the floor, and at the floor it stays there.
C4_Decrease ==
    [][(Resolves /\ pc' = "read" /\ message' = "MEMORY_LIMIT_EXCEEDED") =>
          /\ current_batch_size' = Max(current_batch_size \div 2, cfg.floor)
          /\ current_batch_size' <= current_batch_size
          /\ current_batch_size' >= cfg.floor
          /\ (current_batch_size = cfg.floor =>
                current_batch_size' = cfg.floor)]_vars

\* A full batch of floor size ended in LadderExhausted and was not split (it
\* was no longer than the split threshold, which is below the initial size);
\* the target size is still the floor.
C4_Witness ==
    /\ pc = "read"
    /\ message = "MEMORY_LIMIT_EXCEEDED"
    /\ Len(attempts) = 4
    /\ part_attempts = <<>>
    /\ cfg.min_split = cfg.floor
    /\ current_batch_size = cfg.floor

\* C5: after a full batch of the main loop succeeds through the ladder, at
\* the first memory limit or at a smaller one, the new target size is
\* min(targetSize + increaseStep, initialBatchSize), and it is not smaller
\* than before.
C5_Increase ==
    [][(Resolves /\ pc' = "read" /\ message' = "Loaded") =>
          /\ current_batch_size' =
                Min(current_batch_size + cfg.increase, cfg.initial_batch_size)
          /\ current_batch_size' >= current_batch_size]_vars

\* A batch smaller than the initial size succeeded below the first memory
\* limit (only batches shorter than the initial size have been loaded) and
\* the target size is back at the initial size.
C5_Witness ==
    /\ pc = "read"
    /\ message = "Loaded"
    /\ Len(attempts) > 1
    /\ 0 < total_loaded
    /\ total_loaded < cfg.initial_batch_size
    /\ part_attempts = <<>>
    /\ current_batch_size = cfg.initial_batch_size

\* C6: in every reachable state floor <= current_batch_size <=
\* initial_batch_size.
C6_Bounded ==
    /\ cfg.floor <= current_batch_size
    /\ current_batch_size <= cfg.initial_batch_size

\* The target size is strictly between the floor and the initial size after
\* a failure.
C6_Witness ==
    /\ cfg.floor < current_batch_size
    /\ current_batch_size < cfg.initial_batch_size
    /\ message \in Failures

\* C7, as claimed: the multiplicative decrease is applied exactly once per
\* failing top-level batch, at its resolution, whatever the number and the
\* outcomes of its split parts; the steps that load its parts leave the
\* target size alone.
C7_OncePerFailingBatch ==
    [][pc = "submit" =>
          IF Resolves /\ message' \in Failures
          THEN current_batch_size' =
                  Max(current_batch_size \div 2, cfg.floor)
          ELSE Resolves \/ current_batch_size' = current_batch_size]_vars

\* C7, amended: the multiplicative decrease is applied exactly once per
\* failing full batch of the main loop, whatever the number and the outcomes
\* of its split parts; the steps that load its parts leave the target size
\* alone, and a failing final partial batch applies no decrease.
C7_OncePerFailingFullBatch ==
    [][pc = "submit" =>
          IF Resolves /\ message' \in Failures /\ ~eof
          THEN current_batch_size' =
                  Max(current_batch_size \div 2, cfg.floor)
          ELSE (Resolves /\ ~eof) \/ current_batch_size' = current_batch_size]_vars

\* A full batch of the initial size was split, all its parts were lost (no
\* record is loaded, every record read is lost) and the target size is half
\* the initial size, above the floor.
C7_Witness ==
    /\ pc = "read"
    /\ message \in Failures
    /\ part_attempts # <<>>
    /\ total_loaded = 0
    /\ failed_records = cfg.initial_batch_size
    /\ current_batch_size = cfg.initial_batch_size \div 2
    /\ current_batch_size > cfg.floor

\* One ladder log: every submission but the last returned
\* MEMORY_LIMIT_EXCEEDED, so a success is the last submission of its call; and
\* the smallest limit is submitted last, after each larger limit of the
\* ladder was submitted and returned MEMORY_LIMIT_EXCEEDED.
LadderLog(log, first) ==
    /\ \A i \in 1..Len(log) - 1 : log[i].outcome = "MEMORY_LIMIT_EXCEEDED"
    /\ \A i \in 1..Len(log) :
          log[i].limit = SmallestLimit =>
             /\ i = Len(log)
             /\ \A j \in 1..i - 1 : log[j].limit > SmallestLimit
             /\ {log[j].limit : j \in 1..i - 1} =
                   {first, 300000000, 150000000}

\* C8: within one load_batch call the ladder stops on the first success, and
\* the smallest ceiling is attempted last, only after every larger ceiling
\* returned ResourceExhausted.
C8_LadderStops ==
    /\ LadderLog(attempts, 500000000)
    /\ LadderLog(part_attempts, 200000000)
    /\ pc = "submit" =>
          Len(IF parts = <<>> THEN attempts ELSE part_attempts) = limit_idx - 1

\* A batch went down the whole ladder, the smallest limit last, and was
\* split; its last part succeeded at the third memory limit and no fourth
\* submission was made for it.
C8_Witness ==
    /\ pc = "read"
    /\ Len(attempts) = 4
    /\ attempts[4].limit = SmallestLimit
    /\ Len(part_attempts) = 3
    /\ part_attempts[3].outcome = "Success"

\* C9: a batch whose ladder ends with OtherFailure is abandoned at once: it
\* is not split, no further submission is made for its records and the whole
\* batch is counted as lost.
C9_OtherFailureAbandons ==
    [][(TopReturns /\ message' = "OtherError") =>
          /\ parts' = <<>>
          /\ pc' # "submit"
          /\ failed_records' = failed_records + Len(batch_lines)]_vars

\* C10: a failing batch no longer than the split threshold is not split: the
\* whole batch is counted as lost and no further submission is made for it.
C10_NoSplitAtOrBelowThreshold ==
    [][(TopReturns /\ message' \in Failures
          /\ Len(batch_lines) <= cfg.min_split) =>
          /\ parts' = <<>>
          /\ part_attempts' = <<>>
          /\ pc' # "submit"
          /\ failed_records' = failed_records + Len(batch_lines)
          /\ total_loaded' = total_loaded]_vars

\* A full batch of the main loop as long as the split threshold failed and
\* was counted as lost without a split.
C10_Witness ==
    /\ pc = "read"
    /\ ~eof
    /\ message \in Failures
    /\ attempts # <<>>
    /\ part_attempts = <<>>
    /\ batch_lines = <<>>
    /\ failed_records >= cfg.min_split

\* The records of the batch in flight that are not yet counted as loaded or
\* lost: the whole batch while its own load_batch call runs, the parts still
\* to be loaded after a split.
RECURSIVE Flatten(_)
Flatten(ps) == IF ps = <<>> THEN <<>> ELSE Head(ps) \o Flatten(Tail(ps))
Unresolved ==
    IF pc = "read" THEN batch_lines
    ELSE IF pc = "submit"
         THEN (IF parts = <<>> THEN batch_lines ELSE Flatten(parts))
    ELSE <<>>

\* C11: resolution is final.  The records not yet resolved are, in read
\* order, exactly the records read after the total_loaded + failed_records
\* resolved ones: no record of a resolved batch is in a batch again, a
\* record is counted in total_loaded or failed_records once, and the counters
\* never go down; this also holds when an error interrupts the reading of an
\* input file.
ResolvedOnce ==
    /\ Len(Unresolved) = processed - (total_loaded + failed_records)
    /\ \A i \in 1..Len(Unresolved) :
          Unresolved[i].id = total_loaded + failed_records + i
    /\ pc = "submit" =>
          \A i \in 1..Len(batch_lines) :
             batch_lines[i].id = processed - Len(batch_lines) + i
C11_ResolvedOnce ==
    /\ []ResolvedOnce
    /\ [][/\ total_loaded' >= total_loaded
          /\ failed_records' >= failed_records]_vars

\* A second batch is being read after a first one was resolved by a split in
\* the streaming script.
C11_Witness ==
    /\ cfg.script = "streaming"
    /\ pc = "read"
    /\ part_attempts # <<>>
    /\ total_loaded > 0
    /\ failed_records > 0
    /\ Len(batch_lines) > 1

\* C12: nothing is fatal to the run: for every input, the empty one
\* included, and every sequence of sink outcomes the run ends by printing the
\* final summary; it never ends in an uncaught error.
C12_NothingFatal == pc # "crashed"

\* C13: load_batch on a batch with no records returns success without a sink
\* submission.
C13_EmptyBatchSucceeds ==
    (batch_lines = <<>> /\ pc # "call") =>
       /\ pc = "returned"
       /\ message \in {"Loaded", "NoValid"}
       /\ attempts = <<>>

\* load_batch has returned for an empty batch.
C13_Witness == batch_lines = <<>> /\ pc = "returned"

\* C14: when an external interrupt arrives the script stops reading, lets
\* the batch in flight finish and prints the final report: no run is ended
\* by the interrupt itself, with a batch unresolved and no report.
C14_InterruptStillReports == pc # "interrupted"

\* The limits of a ladder log are strictly decreasing.
Decreasing(log) ==
    \A i \in 1..Len(log) - 1 : log[i].limit > log[i + 1].limit

\* C15: for every batch and every split sub-batch the ceilings at which it
\* is submitted form a strictly decreasing sequence.
C15_CeilingsDecrease == Decreasing(attempts) /\ Decreasing(part_attempts)

\* C16, as claimed: no sub-batch is ever submitted at a ceiling above the
\* smallest ceiling of the ladder.
C16_PartsAtSmallestOnly ==
    \A i \in 1..Len(part_attempts) : part_attempts[i].limit <= SmallestLimit

\* C16, amended: each sub-batch goes through a four-step ladder of its own,
\* which starts at 200000000, below the first ceiling of a top-level batch,
\* and goes on with the rest of the ladder (300000000, 150000000, 100000000);
\* no sub-batch is ever submitted at the first ceiling of a top-level batch.
C16_PartsFromReducedFirstCeiling ==
    /\ Len(part_attempts) <= 4
    /\ \A i \in 1..Len(part_attempts) :
          /\ part_attempts[i].limit =
                <<200000000, 300000000, 150000000, SmallestLimit>>[i]
          /\ part_attempts[i].limit < 500000000
    /\ \A i \in 1..Len(attempts) :
          attempts[i].limit =
             <<500000000, 300000000, 150000000, SmallestLimit>>[i]

\* A sub-batch was submitted at 200000000 and then at 300000000.
C16_Witness ==
    /\ parts # <<>>
    /\ Len(part_attempts) = 2
    /\ part_attempts[1].limit = 200000000
    /\ part_attempts[2].limit = 300000000

\* C17: when the Splitter runs on a batch with split factor 4 it produces
\* exactly 4 sub-batches whose lengths differ by at most 1.
C17_FourEvenParts ==
    (pc = "submit" /\ parts # <<>>) =>
       LET ps == split_batch(batch_lines, NumParts) IN
       /\ Len(ps) = NumParts
       /\ \A i, j \in 1..Len(ps) : Len(ps[i]) - Len(ps[j]) <= 1

\* C18: within load_batch, after a run that failed without
\* MEMORY_LIMIT_EXCEEDED no further ceiling is tried and the call returns
\* failure; every run that was followed by another one returned
\* MEMORY_LIMIT_EXCEEDED.
C18_OtherFailureStops ==
    /\ \A i \in 1..Len(attempts) :
          attempts[i].outcome = "OtherError" =>
             /\ i = Len(attempts)
             /\ pc = "returned"
             /\ message = "OtherError"
    /\ \A i \in 1..Len(attempts) - 1 :
          attempts[i].outcome = "MEMORY_LIMIT_EXCEEDED"

\* load_batch returned failure after an OtherError at the second ceiling.
C18_Witness ==
    /\ pc = "returned"
    /\ Len(attempts) = 2
    /\ attempts[1].outcome = "MEMORY_LIMIT_EXCEEDED"
    /\ attempts[2].outcome = "OtherError"
    /\ message = "OtherError"

\* s is a suffix of t.
IsSuffix(s, t) ==
    Len(s) <= Len(t) /\ s = SubSeq(t, Len(t) - Len(s) + 1, Len(t))

\* C19: the split is single-level.  Parts come into being only when the
\* load_batch call on the whole batch returns failure, so at most once per
\* top-level batch; a step that resolves a part leaves only parts that were
\* already there (a failed part is not split again) and, unless the part is
\* counted as loaded, adds its length to failed_records.
C19_SingleLevelSplit ==
    [][/\ (parts = <<>> /\ parts' # <<>>) => TopReturns
       /\ (parts # <<>> /\ parts' # parts) =>
             /\ IsSuffix(parts', Tail(parts))
             /\ \/ /\ failed_records' = failed_records + Len(Head(parts))
                   /\ total_loaded' - total_loaded =
                         Len(Flatten(Tail(parts))) - Len(Flatten(parts'))
                \/ /\ failed_records' = failed_records
                   /\ total_loaded' - total_loaded =
                         Len(Flatten(parts)) - Len(Flatten(parts'))]_vars

\* Of the first batch, split, a part is lost and another part is in flight.
C19_Witness ==
    /\ pc = "submit"
    /\ parts # <<>>
    /\ processed = Len(batch_lines)
    /\ failed_records > 0

\* C20: the target size is decreased only when the ladder reported
\* LadderExhausted; a batch that ended with OtherFailure leaves it unchanged.
C20_DecreaseOnlyOnExhausted ==
    [][current_batch_size' < current_batch_size =>
          message' = "MEMORY_LIMIT_EXCEEDED"]_vars

\* C21: every batch passed to load_batch before the end of the input has
\* exactly current_batch_size lines, the size in force at that moment, also
\* right after a decrease; the in-progress batch is always shorter; the final
\* batch has more than 0 and fewer than current_batch_size lines.
C21_BatchLengthIsTargetSize ==
    /\ [](/\ pc = "read" => Len(batch_lines) < current_batch_size
          /\ (pc = "submit" /\ ~eof) =>
                Len(batch_lines) = current_batch_size
          /\ (pc = "submit" /\ eof) =>
                /\ 0 < Len(batch_lines)
                /\ Len(batch_lines) < current_batch_size)
    /\ [][yielded' # yielded =>
             LET n == Len(yielded') - Len(yielded) IN
             IF eof' THEN 0 < n /\ n < current_batch_size
                     ELSE n = current_batch_size]_vars

\* The first batch after a decrease is in flight: it has the decreased size.
C21_Witness ==
    /\ pc = "submit"
    /\ ~eof
    /\ current_batch_size < cfg.initial_batch_size
    /\ Len(batch_lines) = current_batch_size
    /\ Len(yielded) = cfg.initial_batch_size + current_batch_size

\* C22: resolution is strictly sequential.  While a batch is in flight no
\* line is read and no other batch is passed to load_batch; the batch in
\* flight is the one made of the last lines read, and every line read so far
\* is in it or in an earlier batch; when the script reads, no part of an
\* earlier batch is left to be submitted.
C22_OneBatchInFlight ==
    /\ [](/\ pc = "read" => parts = <<>>
          /\ pc = "submit" =>
                /\ Len(yielded) = processed
                /\ Ids(batch_lines) =
                      SubSeq(yielded, processed - Len(batch_lines) + 1,
                             processed))
    /\ [][/\ processed' # processed => pc = "read" /\ parts = <<>>
          /\ pc = "submit" => processed' = processed /\ yielded' = yielded
         ]_vars

\* The second batch is in flight, in its split parts, after the first one
\* was resolved.
C22_Witness ==
    /\ pc = "submit"
    /\ parts # <<>>
    /\ part_attempts # <<>>
    /\ Len(yielded) > Len(batch_lines)
    /\ total_loaded + failed_records >= Len(yielded) - Len(batch_lines)

\* C23: at the end of the input a non-empty remaining batch is passed to
\* load_batch as a top-level batch (first memory limit first); if the call
\* fails the batch is split when it is longer than the split threshold, else
\* counted as lost as a whole; at the end of the run every line is counted as
\* loaded or as lost.  An empty remainder causes no load_batch call and no
\* counter change.
C23_FinalBatch ==
    /\ [](eof /\ pc \in {"done", "crashed"} =>
             processed = total_loaded + failed_records)
    /\ [][(~eof /\ eof') =>
             IF batch_lines = <<>>
             THEN /\ pc' \in {"done", "crashed"}
                  /\ UNCHANGED <<total_loaded, failed_records, attempts,
                                 part_attempts, yielded, calls, temp_file>>
             ELSE /\ yielded' = yielded \o Ids(batch_lines)
                  /\ batch_lines' = batch_lines
                  /\ IF valid_lines(batch_lines) = 0
                     THEN /\ pc' = "done"
                          /\ total_loaded' = total_loaded + Len(batch_lines)
                     ELSE /\ pc' = "submit"
                          /\ parts' = <<>>
                          /\ limit_idx' = 1
                          /\ attempts' = <<>>]_vars
    /\ [][(eof /\ TopReturns) =>
             IF message' = "Loaded"
             THEN /\ pc' = "done"
                  /\ total_loaded' = total_loaded + Len(batch_lines)
                  /\ failed_records' = failed_records
             ELSE IF Len(batch_lines) > cfg.min_split
             THEN /\ pc' = "submit"
                  /\ parts' # <<>>
                  /\ IsSuffix(parts', split_batch(batch_lines, NumParts))
                  /\ failed_records' = failed_records
             ELSE /\ pc' = "done"
                  /\ total_loaded' = total_loaded
                  /\ failed_records' = failed_records + Len(batch_lines)]_vars

\* The run has ended with a final batch that failed, was split, and had
\* parts loaded and parts lost.
C23_Witness ==
    /\ pc = "done"
    /\ message \in Failures
    /\ part_attempts # <<>>
    /\ Len(batch_lines) < current_batch_size
    /\ Len(batch_lines) = processed
    /\ total_loaded > 0
    /\ failed_records > 0

\* ceil((initial_batch_size - t) / increase): the successful full batches
\* C24 allows for the way from size t back to the initial size.
StepsToInitial(t) ==
    (cfg.initial_batch_size - t + cfg.increase - 1) \div cfg.increase

\* This step resolves a full batch of the main loop as loaded.
FullBatchSucceeds ==
    /\ ~eof'
    /\ pc' = "read"
    /\ \/ TopReturns /\ message' = "Loaded"
       \/ pc = "read" /\ yielded' # yielded

\* C24: additive recovery.  Every successful full batch lowers the number of
\* batches still allowed for the way back, ceil((initial - size) / step), by
\* at least one until it is 0; it is 0 exactly at the initial size; and the
\* size leaves the initial size only when a full batch fails.  So after at
\* most ceil((initial - t) / step) successful full batches in a row from
\* size t the size is the initial size and stays there.
C24_AdditiveRecovery ==
    /\ [](StepsToInitial(current_batch_size) = 0 <=>
             current_batch_size = cfg.initial_batch_size)
    /\ [][FullBatchSucceeds =>
             StepsToInitial(current_batch_size') <=
                Max(StepsToInitial(current_batch_size) - 1, 0)]_vars
    /\ [][(current_batch_size = cfg.initial_batch_size
           /\ current_batch_size' # current_batch_size) =>
             Resolves /\ ~eof /\ message' \in Failures]_vars

\* The first batch was lost and halved the size to the floor, two batches
\* away from the initial size; the next two batches were loaded and the size
\* is back at the initial size.
C24_Witness ==
    /\ pc = "read"
    /\ message = "Loaded"
    /\ StepsToInitial(cfg.floor) = 2
    /\ failed_records = cfg.initial_batch_size
    /\ total_loaded = cfg.floor + (cfg.floor + cfg.increase)
    /\ current_batch_size = cfg.initial_batch_size

\* The ids of a sequence of lines are strictly increasing.
InReadOrder(lines) ==
    \A i \in 1..Len(lines) - 1 : lines[i].id < lines[i + 1].id

\* The file load_batch writes (lines 13-21): the valid lines, in the order of
\* the batch.
Written(lines) == SelectSeq(lines, LAMBDA l : l.valid)

\* C25: records keep their read order.  The lines of the in-progress batch,
\* of every batch passed to load_batch, of every split part and of the file
\* load_batch writes are in read order; the parts still to be loaded are, in
\* order, the end of the batch; and the top-level batches passed to
\* load_batch, concatenated in call order, are the lines read so far without
\* the in-progress batch: at the end of the run, all the non-blank lines
\* read, in order.
C25_ReadOrderKept ==
    /\ InReadOrder(batch_lines)
    /\ InReadOrder(Written(batch_lines))
    /\ \A i \in 1..Len(parts) :
          InReadOrder(parts[i]) /\ InReadOrder(Written(parts[i]))
    /\ IsSuffix(Flatten(parts), batch_lines)
    /\ yielded = [i \in 1..Len(yielded) |-> i]
    /\ pc = "read" => Ids(batch_lines) =
          [i \in 1..Len(batch_lines) |-> Len(yielded) + i]
    /\ pc = "read" => Len(yielded) + Len(batch_lines) = processed
    /\ pc # "read" => Len(yielded) = processed

\* At the end of a run of at least three batches, with a split and with
\* malformed lines, all the lines read have been passed on.
C25_Witness ==
    /\ pc = "done"
    /\ Len(yielded) = processed
    /\ processed > cfg.initial_batch_size + current_batch_size
    /\ part_attempts # <<>>
    /\ invalid_read > 0

\* C26: current_batch_size changes only in the step that resolves a full
\* batch of the main loop.  Reading and appending a line, a sink run after
\* which load_batch goes on to the next memory limit, the outcome of a split
\* part that is not the last one, and every step of the final batch leave it
\* unchanged.
C26_SizeChangesAtFullBatchResolution ==
    [][current_batch_size' # current_batch_size =>
          /\ ~eof'
          /\ pc' = "read"
          /\ batch_lines' = <<>>
          /\ Resolves \/ (pc = "read" /\ yielded' # yielded)]_vars

\* The run ended with a final batch that failed and was split, parts of it
\* lost, after a first full batch had halved the size: the final batch left
\* the size as it was.
C26_Witness ==
    /\ pc = "done"
    /\ message \in Failures
    /\ part_attempts # <<>>
    /\ Len(batch_lines) < processed
    /\ failed_records > cfg.initial_batch_size
    /\ current_batch_size = Max(cfg.initial_batch_size \div 2, cfg.floor)

\* C27: split is a lossless partition.  Where split_batch is called
\* part_size is at least 1; its parts are non-empty and, concatenated in
\* order, are the batch; the parts still to be loaded are the last of them;
\* and the lines of the batch counted so far as loaded or lost are those of
\* the parts already resolved, so that the counts of the parts add up to the
\* length of the batch.
C27_SplitIsPartition ==
    (pc = "submit" /\ parts # <<>>) =>
       LET ps == split_batch(batch_lines, NumParts) IN
       /\ Len(batch_lines) \div NumParts >= 1
       /\ \A i \in 1..Len(ps) : ps[i] # <<>>
       /\ Flatten(ps) = batch_lines
       /\ IsSuffix(parts, ps)
       /\ total_loaded + failed_records + Len(Flatten(parts)) = processed
       /\ Len(yielded) = processed

\* The last of five parts is in flight; parts before it were loaded and lost.
C27_Witness ==
    /\ pc = "submit"
    /\ Len(parts) = 1
    /\ Len(split_batch(batch_lines, NumParts)) = NumParts + 1
    /\ total_loaded > 0
    /\ failed_records > 0

\* C28: in batch_load.py every failing full batch of the main loop is split:
\* it is longer than the split threshold, and a whole batch is counted as
\* lost without a split only when it is the final batch.
C28_FullBatchAlwaysSplit ==
    [][(cfg.script = "batch_load" /\ TopReturns /\ message' \in Failures) =>
          /\ ~eof =>
                /\ Len(batch_lines) > cfg.min_split
                /\ parts' # <<>>
                /\ failed_records' = failed_records
          /\ failed_records' = failed_records + Len(batch_lines) => eof]_vars

\* batch_load.py: a full batch of floor size has failed and is being loaded
\* in parts.
C28_Witness ==
    /\ cfg.script = "batch_load"
    /\ pc = "submit"
    /\ ~eof
    /\ parts # <<>>
    /\ current_batch_size = cfg.floor
    /\ Len(batch_lines) = cfg.floor

\* C29: sink submissions per batch are bounded.  One load_batch call makes
\* at most 4 submissions, the i-th at the i-th memory limit of its ladder;
\* and a top-level batch causes one load_batch call if it is not split and
\* at most 1 + p calls if it is split into p parts: at most 4 * (1 + p)
\* submissions.
C29_SubmissionsBounded ==
    /\ [](/\ Len(attempts) <= 4
          /\ Len(part_attempts) <= 4
          /\ \A i \in 1..Len(attempts) :
                attempts[i].limit = memory_limits(500)[i]
          /\ \A i \in 1..Len(part_attempts) :
                part_attempts[i].limit = memory_limits(200)[i]
          /\ pc = "submit" =>
                limit_idx = 1 + Len(IF parts = <<>> THEN attempts
                                                    ELSE part_attempts))
    /\ [][pc' = "submit" =>
             IF parts' = <<>>
             THEN calls' = 1
             ELSE LET ps == split_batch(batch_lines', NumParts) IN
                  calls' = 1 + (Len(ps) - Len(parts') + 1)]_vars
    /\ [][Resolves =>
             calls' <= 1 + (IF parts = <<>> /\ parts' = <<>> THEN 0
                            ELSE Len(split_batch(batch_lines, NumParts)))
         ]_vars

\* A batch was split into five parts after four submissions and the last
\* part was submitted four times: six load_batch calls.
C29_Witness ==
    /\ pc = "read"
    /\ Len(attempts) = 4
    /\ Len(part_attempts) = 4
    /\ calls = NumParts + 2

\* C30: load_batch deletes its temporary file exactly once on every return
\* path, and the file exists during each sink submission: while a run is
\* awaited the file of the call exists and has not been unlinked; after the
\* call has returned the file does not exist and was unlinked once (never,
\* if the call created none).
C30_TempFileDeletedOnce ==
    /\ pc = "submit" =>
          /\ temp_file.created
          /\ temp_file.exists
          /\ temp_file.unlinks = 0
    /\ pc \notin {"submit", "call"} =>
          /\ ~temp_file.exists
          /\ temp_file.unlinks = IF temp_file.created THEN 1 ELSE 0
    /\ (pc = "returned" /\ ~temp_file.created) =>
          cfg.script = "streaming" /\ batch_lines = <<>>

\* load_batch has returned failure after the whole ladder; its file was
\* unlinked once.
C30_Witness ==
    /\ pc = "returned"
    /\ message = "MEMORY_LIMIT_EXCEEDED"
    /\ Len(attempts) = 4
    /\ temp_file.created
    /\ temp_file.unlinks = 1

====
